---- MODULE Spec2Model ----
(***************************************************************************)
(* A model of tui-radar-sim: the radar simulation engine (src/radar.rs),   *)
(* the tick handler, the main loop, the input thread and the terminal      *)
(* set-up and clean-up (src/tui.rs), main (src/main.rs), and the worker    *)
(* pool (src/threadpool.rs).                                               *)
(*                                                                         *)
(* Specifications:                                                         *)
(*   Spec        Tui::new, then ticks at the cadence of run()              *)
(*   SpecCross   one call of sweep_crossed_target                          *)
(*   SpecWidget  RadarWidget::new, then calls of its spawn operations and  *)
(*               of update_world_objects                                   *)
(*   SpecRun     main: Tui::new, run() with its input thread, Drop         *)
(*   SpecSweep   the ticks of two revolutions at the default rates         *)
(*   SpecPool    ThreadPool::new, execute from any thread, the workers,    *)
(*               Drop (src/threadpool.rs); SpecPoolFair adds that every    *)
(*               thread that can take a step does so                       *)
(*                                                                         *)
(* Number representation.  The program computes with f64 and Instant.     *)
(* The model is exact fixed point:                                         *)
(*   - an angle (degrees) or a distance a is the integer a * PosScale;     *)
(*   - a time or a duration t (seconds) is the integer t * TimeScale;      *)
(*   - a velocity v (units per second) is the integer v * PosScale;        *)
(*   - a visibility x in [0, 1] is the integer x * fade_duration, so that  *)
(*     1 - t / fade_duration is the integer fade_duration - t.             *)
(* Every value the model draws is chosen so that the divisions below are   *)
(* exact.                                                                  *)
(***************************************************************************)
EXTENDS Integers, Sequences, FiniteSets, TLC

VARIABLES
    sweep_angle,        \* RadarWidget.sweep_angle
    detected_contacts,  \* RadarWidget.detected_contacts (Vec<Contact>)
    world_objects,      \* RadarWidget.world_objects (Vec<WorldObjects>)
    max_range,          \* RadarWidget.max_range
    last_spawn_time,    \* Model.last_spawn_time
    next_id,            \* Model.next_id
    delta_time,         \* 1.0 / Tui.tick_rate, also run()'s tick_duration
    last_tick,          \* run()'s local last_tick
    clock,              \* the reading Instant::now() gave last
    rng,                \* position of rand::rng() in its stream
    tick_now,           \* Tui::update's local now, last tick
    old_angle,          \* update_sweep's local old_angle, last tick
    refresh_now,        \* update_target_visibility's local now, last tick
    hit_now,            \* check_sweep_hits' local now, last tick
    hits,               \* ids for which check_sweep_hits took the hit branch, last tick
    rehits,             \* those of hits whose contact already existed
    expired,            \* ids of the contacts update_target_visibility dropped, last tick
    hit_tick,           \* id -> nticks at the tick that hit it last
    nticks,             \* number of Tick messages handled
    cross_old, cross_new, cross_target, cross_result, cross_done,
                        \* one call of sweep_crossed_target: arguments and result
    panicked,           \* a spawn operation panicked
    pc,                 \* where the main thread is
    step,               \* the step taken last; with the key code of a drained
                        \* message, with KeyEvent.kind of an event read
    frame_duration,     \* run()'s local frame_duration
    last_frame,         \* run()'s local last_frame
    run_start,          \* the reading run() initialises last_tick and last_frame with
    loop_now,           \* run()'s local now
    nframes,            \* number of Render messages handled without error
    run_result,         \* what run() returned
    quit_drained,       \* update() returned UpdateCommand::Quit
    queue,              \* the mpsc channel's buffer
    rx_alive,           \* Tui.msg_rx has not been dropped
    listener,           \* where the input thread is
    raw_mode,           \* crossterm's raw mode is enabled
    alt_screen,         \* the terminal shows the alternate screen
    leave_count,        \* LeaveAlternateScreen commands executed
    disable_count,      \* disable_raw_mode calls that succeeded
    show_count,         \* show_cursor calls that succeeded
    size,               \* the argument of ThreadPool::new
    pool,               \* where the thread owning the ThreadPool is
    workers,            \* ThreadPool.workers with their threads
    sender,             \* ThreadPool.sender is Some and not dropped
    channel,            \* the messages in the mpsc channel, oldest first
    receiver_lock,      \* the worker holding the Mutex of the receiver, or 0
    cursor,             \* workers spawned, sent a Terminate, or joined
    next_job,           \* the id of the next job passed to execute
    accepted,           \* the jobs for which execute returned Ok
    runs,               \* per job, how often a worker has started it
    panics,             \* jobs that panicked so far
    drop_backlog        \* NewJob messages in the channel when Drop began

radar_vars == << sweep_angle, detected_contacts, world_objects, max_range,
                 last_spawn_time, next_id, delta_time, last_tick, clock, rng,
                 tick_now, old_angle, refresh_now, hit_now, hits, rehits,
                 expired, hit_tick, nticks >>

cross_vars == << cross_old, cross_new, cross_target, cross_result, cross_done >>

run_vars == << pc, step, frame_duration, last_frame, run_start, loop_now,
               nframes, run_result, quit_drained, queue, rx_alive, listener >>

term_vars == << raw_mode, alt_screen, leave_count, disable_count, show_count >>

pool_vars == << size, pool, workers, sender, channel, receiver_lock, cursor,
               next_job, accepted, runs, panics, drop_backlog >>

sim_vars == << radar_vars, cross_vars, panicked, run_vars, term_vars >>

vars == << sim_vars, pool_vars >>

----------------------------------------------------------------------------
(* Fixed point *)

PosScale == 1800
TimeScale == 15

Deg(d) == d * PosScale
Secs(s) == s * TimeScale

\* a * dt for a scaled quantity a per second and a scaled duration dt
PerTime(a, dt) == (a * dt) \div TimeScale

----------------------------------------------------------------------------
(* Bounds of the model *)

MaxTicks == 4
MaxJumps == 7
TimeJump == 70
MaxSeed == 2
MaxSpawns == 3
MaxQueue == 1
MaxWorkers == 2
MaxJobs == 2

\* what one reading of the clock may have advanced since the previous one
ClockSteps == {0, TimeJump}
MaxClock == MaxJumps * TimeJump

\* the three readings of one tick (tui.rs:177, radar.rs:81, radar.rs:99),
\* each as an advance over the reading before it
TickSteps == ClockSteps \X ClockSteps \X ClockSteps

\* 1 / tick_rate for tick_rate = 15 (main), 0.2 and 1/15
DeltaTimes == {1, Secs(5), Secs(15)}

\* run() with its threads: the bounds of ticks and clock, 1 / tick_rate and
\* 1 / frame_rate (7 s and 5 s)
RunTicks == MaxTicks + 1
RunClock == MaxClock + 2 * TimeJump
RunDelta == Secs(7)
RunFrame == Secs(5)

\* how much longer than asked thread::sleep may take: nothing, or more than
\* one tick interval and one frame interval
SleepSteps == {0, 2 * TimeJump}

\* the readings of one tick of run(): equal, or the last one later
RunTickSteps == {<< 0, 0, 0 >>, << 0, 0, TimeJump >>}

\* the key events the input thread reads
KeyCodes == {"Esc", "q", "x"}
KeyEventKinds == {"Press", "Release"}

\* max_range of a RadarWidget: 35, and the 1000 of Tui::new
WidgetRanges == {Deg(35), Deg(1000)}

\* the values rand's ranges are sampled at
AngleGrid == << 0, 4, 358 >>
DistanceGrid == << 40, 20, 500 >>
VelocityGrid == << 0, -8, 1, -1, 7 >>
RngPeriod == 60

----------------------------------------------------------------------------
(* Program constants *)

DEGREES_PER_SECOND == 48
FullCircle == Deg(360)
sweep_width == Deg(3)
sweep_rate == DEGREES_PER_SECOND \div 6
fade_duration == (Secs(sweep_rate) * 175) \div 100
TuiMaxRange == Deg(1000)
SpawnPeriodSecs == 5
FirstAmbientId == 1000

ObjectTypes == {"AirCraft", "Ship", "Unknown", "Hostile", "Generic", "Weather"}

----------------------------------------------------------------------------
(* Instant and Duration *)

\* Instant::duration_since: saturating
duration_since(now, earlier) == IF now >= earlier THEN now - earlier ELSE 0

\* Duration::as_secs: whole seconds
as_secs(d) == d \div TimeScale

----------------------------------------------------------------------------
(* rand *)

InRange(grid, lo, hi) == SelectSeq(grid, LAMBDA x : lo <= x /\ x < hi)

\* rng.random_range(lo..hi), the r-th draw of the stream, in scaled units
random_range(grid, lo, hi, r) ==
    LET c == InRange(grid, lo, hi)
    IN  Deg(c[(r % Len(c)) + 1])

----------------------------------------------------------------------------
(* Spawn operations: the object pushed, given the stream position r *)

spawn_aircraft(id, r) ==
    LET start_angle == random_range(AngleGrid, 0, 360, r)
        target_angle == random_range(AngleGrid, 0, 360, r + 1)
        d0 == target_angle - start_angle
        d1 == IF d0 > Deg(180) THEN d0 - Deg(360) ELSE d0
        angle_diff == IF d1 < -Deg(180) THEN d1 + Deg(360) ELSE d1
        angular_velocity == angle_diff \div 120
        radial_velocity == random_range(VelocityGrid, -2, 2, r + 2)
    IN  [id |-> id, angle |-> start_angle, distance |-> (max_range * 9) \div 10,
         object_type |-> "AirCraft",
         velocity |-> << angular_velocity, radial_velocity >>]

spawn_ship(id, r) ==
    [id |-> id,
     angle |-> random_range(AngleGrid, 0, 360, r),
     distance |-> random_range(DistanceGrid, 20, 80, r + 1),
     object_type |-> "Ship",
     velocity |-> << random_range(VelocityGrid, -2, 2, r + 2),
                     random_range(VelocityGrid, -1, 1, r + 3) >>]

spawn_unknown(id, r) ==
    [id |-> id,
     angle |-> random_range(AngleGrid, 0, 360, r),
     distance |-> random_range(DistanceGrid, 30, (max_range * 8) \div (10 * PosScale), r + 1),
     object_type |-> "Unknown",
     velocity |-> << random_range(VelocityGrid, -1, 1, r + 2),
                     random_range(VelocityGrid, -2, 2, r + 3) >>]

spawn_hostile(id, r) ==
    [id |-> id,
     angle |-> random_range(AngleGrid, 0, 360, r),
     distance |-> random_range(DistanceGrid, 40, (max_range * 7) \div (10 * PosScale), r + 1),
     object_type |-> "Hostile",
     velocity |-> << random_range(VelocityGrid, -8, 8, r + 2),
                     random_range(VelocityGrid, -8, 8, r + 3) >>]

spawn_generic(id, r) ==
    [id |-> id,
     angle |-> random_range(AngleGrid, 0, 360, r),
     distance |-> random_range(DistanceGrid, 15, (max_range * 9) \div (10 * PosScale), r + 1),
     object_type |-> "Generic",
     velocity |-> << random_range(VelocityGrid, -3, 3, r + 2),
                     random_range(VelocityGrid, -3, 3, r + 3) >>]

\* the velocity ranges -0.1..0.1 and -0.2..0.2 hold one grid value, 0
spawn_weather(id, r) ==
    [id |-> id,
     angle |-> random_range(AngleGrid, 0, 360, r),
     distance |-> random_range(DistanceGrid, 10, (max_range * 6) \div (10 * PosScale), r + 1),
     object_type |-> "Weather",
     velocity |-> << random_range(VelocityGrid, 0, 1, r + 2),
                     random_range(VelocityGrid, 0, 1, r + 3) >>]

\* draws one spawn takes from the stream
Draws(kind) == IF kind = "AirCraft" THEN 3 ELSE 4

\* Tui::update, Message::Tick: the kind spawned for an id (id % 10 is in
\* 0..9, so the arm calling spawn_random_object is never taken)
AmbientKind(id) ==
    LET k == id % 10
    IN  IF k <= 3 THEN "AirCraft"
        ELSE IF k <= 5 THEN "Ship"
        ELSE IF k = 6 THEN "Unknown"
        ELSE IF k = 7 THEN "Hostile"
        ELSE IF k = 8 THEN "Generic"
        ELSE "Weather"

Spawned(kind, id, r) ==
    CASE kind = "AirCraft" -> spawn_aircraft(id, r)
      [] kind = "Ship" -> spawn_ship(id, r)
      [] kind = "Unknown" -> spawn_unknown(id, r)
      [] kind = "Hostile" -> spawn_hostile(id, r)
      [] kind = "Generic" -> spawn_generic(id, r)
      [] OTHER -> spawn_weather(id, r)

\* the range a spawn operation draws the distance from, in whole units
\* (spawn_aircraft draws none)
DistanceRange(kind) ==
    CASE kind = "Ship" -> << 20, 80 >>
      [] kind = "Unknown" -> << 30, (max_range * 8) \div (10 * PosScale) >>
      [] kind = "Hostile" -> << 40, (max_range * 7) \div (10 * PosScale) >>
      [] kind = "Generic" -> << 15, (max_range * 9) \div (10 * PosScale) >>
      [] kind = "Weather" -> << 10, (max_range * 6) \div (10 * PosScale) >>
      [] OTHER -> << 0, 1 >>

\* rand's random_range panics on an empty range
SpawnPanics(kind) == DistanceRange(kind)[1] >= DistanceRange(kind)[2]

\* Tui::new: the eight objects spawned at construction
InitialObjects(seed) ==
    << spawn_aircraft(1, seed),
       spawn_ship(100, seed + 3),
       spawn_unknown(200, seed + 7),
       spawn_hostile(300, seed + 11),
       spawn_generic(400, seed + 15),
       spawn_weather(500, seed + 19),
       spawn_aircraft(2, seed + 23),
       spawn_ship(101, seed + 26) >>

InitialDraws == 30

----------------------------------------------------------------------------
(* RadarWidget *)

\* update_world_objects: the wrap of an angle, one turn at most
WrapAngle(a) ==
    IF a >= FullCircle THEN a - FullCircle
    ELSE IF a < 0 THEN a + FullCircle
    ELSE a

MoveObject(obj, dt) ==
    [obj EXCEPT !.angle = WrapAngle(obj.angle + PerTime(obj.velocity[1], dt)),
                !.distance = obj.distance + PerTime(obj.velocity[2], dt)]

InRadarRange(obj) == obj.distance > 0 /\ obj.distance <= max_range

update_world_objects(objs, dt) ==
    LET moved == [i \in 1..Len(objs) |-> MoveObject(objs[i], dt)]
    IN  SelectSeq(moved, InRadarRange)

\* update_sweep: the new sweep angle
AdvanceSweep(angle, dt) ==
    LET a == angle + PerTime(Deg(DEGREES_PER_SECOND), dt)
    IN  IF a >= FullCircle THEN a - FullCircle ELSE a

max_age == fade_duration * 2

\* the visibility 1.0
FullVisibility == fade_duration

\* mutant of NotTooOld: no contact is dropped
NotTooOld_KeepsAll(contact, now) == TRUE

\* mutant of NotTooOld: a contact aged exactly max_age is kept
NotTooOld_Inclusive(contact, now) ==
    duration_since(now, contact.last_hit_time) <= max_age

\* update_target_visibility: the contacts kept
NotTooOld(contact, now) == duration_since(now, contact.last_hit_time) < max_age

\* mutant of FadedVisibility: the fade runs over max_age
FadedVisibility_ByMaxAge(time_since_hit) ==
    IF time_since_hit < fade_duration
    THEN fade_duration - time_since_hit \div 2
    ELSE 0

\* mutant of FadedVisibility: the elapsed share itself, not its complement
FadedVisibility_Inverted(time_since_hit) ==
    IF time_since_hit < fade_duration THEN time_since_hit ELSE 0

\* update_target_visibility: a kept contact's new visibility
FadedVisibility(time_since_hit) ==
    IF time_since_hit < fade_duration
    THEN (IF fade_duration - time_since_hit > 0 THEN fade_duration - time_since_hit ELSE 0)
    ELSE 0

update_target_visibility(contacts, now) ==
    LET kept == SelectSeq(contacts, LAMBDA c : NotTooOld(c, now))
    IN  [i \in 1..Len(kept) |->
            [kept[i] EXCEPT !.visibility =
                FadedVisibility(duration_since(now, kept[i].last_hit_time))]]

\* mutant of sweep_crossed_target: the beam width is exclusive
sweep_crossed_target_Strict(old, new, target_angle) ==
    IF new < old
    THEN IF target_angle >= old \/ target_angle <= new
         THEN LET angle_diff == IF target_angle >= old
                                THEN new + (FullCircle - old)
                                ELSE new - 0
              IN  angle_diff < sweep_width
         ELSE FALSE
    ELSE IF target_angle >= old /\ target_angle <= new
         THEN (target_angle - old) < sweep_width
         ELSE FALSE

\* mutant of sweep_crossed_target: the normal case tests the upper end only
sweep_crossed_target_NoLowerEnd(old, new, target_angle) ==
    IF new < old
    THEN IF target_angle >= old \/ target_angle <= new
         THEN LET angle_diff == IF target_angle >= old
                                THEN new + (FullCircle - old)
                                ELSE new - 0
              IN  angle_diff <= sweep_width
         ELSE FALSE
    ELSE IF target_angle <= new
         THEN (target_angle - old) <= sweep_width
         ELSE FALSE

sweep_crossed_target(old, new, target_angle) ==
    IF new < old
    THEN IF target_angle >= old \/ target_angle <= new
         THEN LET angle_diff == IF target_angle >= old
                                THEN new + (FullCircle - old)
                                ELSE new - 0
              IN  angle_diff <= sweep_width
         ELSE FALSE
    ELSE IF target_angle >= old /\ target_angle <= new
         THEN (target_angle - old) <= sweep_width
         ELSE FALSE

HasContact(contacts, id) == \E i \in 1..Len(contacts) : contacts[i].id = id

\* the position .iter_mut().find(|c| c.id == id) yields: the first match
FindContact(contacts, id) ==
    CHOOSE i \in 1..Len(contacts) :
        /\ contacts[i].id = id
        /\ \A j \in 1..(i - 1) : contacts[j].id # id

\* mutant of RecordHit: a hit always pushes a new contact
RecordHit_AlwaysPush(contacts, obj, now) ==
    Append(contacts, [id |-> obj.id,
                      angle |-> obj.angle,
                      distance |-> obj.distance,
                      last_hit_time |-> now,
                      visibility |-> FullVisibility,
                      object_type |-> obj.object_type])

\* mutant of RecordHit: an existing contact keeps its faded visibility
RecordHit_KeepsVisibility(contacts, obj, now) ==
    IF HasContact(contacts, obj.id)
    THEN [contacts EXCEPT ![FindContact(contacts, obj.id)] =
            [@ EXCEPT !.angle = obj.angle,
                      !.distance = obj.distance,
                      !.last_hit_time = now]]
    ELSE Append(contacts, [id |-> obj.id,
                           angle |-> obj.angle,
                           distance |-> obj.distance,
                           last_hit_time |-> now,
                           visibility |-> FullVisibility,
                           object_type |-> obj.object_type])

\* check_sweep_hits: the body run for a crossed object
RecordHit(contacts, obj, now) ==
    IF HasContact(contacts, obj.id)
    THEN [contacts EXCEPT ![FindContact(contacts, obj.id)] =
            [@ EXCEPT !.angle = obj.angle,
                      !.distance = obj.distance,
                      !.last_hit_time = now,
                      !.visibility = FullVisibility]]
    ELSE Append(contacts, [id |-> obj.id,
                           angle |-> obj.angle,
                           distance |-> obj.distance,
                           last_hit_time |-> now,
                           visibility |-> FullVisibility,
                           object_type |-> obj.object_type])

RECURSIVE HitsFrom(_, _, _, _, _, _)
\* check_sweep_hits: the loop over world_objects from position i on
HitsFrom(contacts, objs, i, old, new, now) ==
    IF i > Len(objs) THEN contacts
    ELSE HitsFrom(IF sweep_crossed_target(old, new, objs[i].angle)
                  THEN RecordHit(contacts, objs[i], now)
                  ELSE contacts,
                  objs, i + 1, old, new, now)

check_sweep_hits(contacts, objs, old, new, now) ==
    HitsFrom(contacts, objs, 1, old, new, now)

\* the ids of the objects check_sweep_hits finds crossed
CrossedIds(objs, old, new) ==
    {objs[i].id : i \in {j \in 1..Len(objs) :
                            sweep_crossed_target(old, new, objs[j].angle)}}

ContactIds(contacts) == {contacts[i].id : i \in 1..Len(contacts)}

----------------------------------------------------------------------------
(* The simulation: Tui::new, then run()'s tick cadence *)

NoCross ==
    /\ cross_old = 0 /\ cross_new = 0 /\ cross_target = 0
    /\ cross_result = FALSE /\ cross_done = FALSE

\* run() has not been called
NoRun ==
    /\ pc = "new" /\ step = << "new" >>
    /\ frame_duration = 0 /\ last_frame = 0 /\ run_start = 0 /\ loop_now = 0
    /\ nframes = 0 /\ run_result = "none" /\ quit_drained = FALSE
    /\ queue = << >> /\ rx_alive = TRUE /\ listener = "none"

\* the terminal before enter()
NoTerminal ==
    /\ raw_mode = FALSE /\ alt_screen = FALSE
    /\ leave_count = 0 /\ disable_count = 0 /\ show_count = 0

\* no ThreadPool has been asked for
NoPool ==
    /\ size = 0 /\ pool = "init" /\ workers = << >> /\ sender = FALSE
    /\ channel = << >> /\ receiver_lock = 0 /\ cursor = 0 /\ next_job = 1
    /\ accepted = {} /\ runs = << >> /\ panics = 0 /\ drop_backlog = 0

\* Tui::new(frame_rate, tick_rate) with 1 / tick_rate = dt, the stream of
\* rand at position seed
TuiNew(seed, dt) ==
    /\ max_range = TuiMaxRange
    /\ world_objects = InitialObjects(seed)
    /\ rng = (seed + InitialDraws) % RngPeriod
    /\ delta_time = dt
    /\ sweep_angle = 0
    /\ detected_contacts = << >>
    /\ last_spawn_time = 0
    /\ next_id = FirstAmbientId
    /\ last_tick = 0
    /\ clock = 0
    /\ tick_now = 0
    /\ old_angle = 0
    /\ refresh_now = 0
    /\ hit_now = 0
    /\ hits = {}
    /\ rehits = {}
    /\ expired = {}
    /\ hit_tick = << >>
    /\ nticks = 0

Init ==
    /\ \E seed \in 0..MaxSeed : \E dt \in DeltaTimes : TuiNew(seed, dt)
    /\ NoCross
    /\ panicked = FALSE
    /\ NoRun
    /\ NoTerminal
    /\ NoPool

\* time passes between two iterations of run()'s loop (thread::sleep, or longer)
Pass ==
    /\ clock + TimeJump <= MaxClock
    /\ clock' = clock + TimeJump
    /\ UNCHANGED << sweep_angle, detected_contacts, world_objects, max_range,
                    last_spawn_time, next_id, delta_time, last_tick, rng,
                    tick_now, old_angle, refresh_now, hit_now, hits, rehits,
                    expired, hit_tick, nticks >>
    /\ UNCHANGED << cross_vars, pool_vars, panicked, run_vars, term_vars >>

\* mutant of SpawnDue: due one second early
SpawnDue_Sooner(now, last) ==
    as_secs(duration_since(now, last)) >= SpawnPeriodSecs - 1

\* Tui::update, Message::Tick: the condition of the ambient spawn
SpawnDue(now, last) ==
    as_secs(duration_since(now, last)) >= SpawnPeriodSecs

\* mutant of AdvanceId: the id is not advanced
AdvanceId_Same(id) == id

\* Tui::update, Message::Tick: next_id += 1
AdvanceId(id) == id + 1

\* mutant of NextBoundary: the boundary is resampled from the clock
NextBoundary_Resampled(last, interval, now) == now

\* run(): last_tick += tick_duration, last_frame += frame_duration
NextBoundary(last, interval, now) == last + interval

\* run(): a due tick; Tui::update(Message::Tick) and all it calls, then the
\* advance of last_tick.  d1, d2, d3: what the clock advanced before the
\* readings at tui.rs:177, radar.rs:81 and radar.rs:99, drawn from steps;
\* max_ticks and max_clock bound the run.
TickCore(steps, max_ticks, max_clock) ==
    /\ nticks < max_ticks
    /\ clock >= last_tick + delta_time
    /\ \E d \in steps :
        LET tnow == clock + d[1]
            rnow == tnow + d[2]
            hnow == rnow + d[3]
            moved == update_world_objects(world_objects, delta_time)
            new_angle == AdvanceSweep(sweep_angle, delta_time)
            refreshed == update_target_visibility(detected_contacts, rnow)
            crossed == CrossedIds(moved, sweep_angle, new_angle)
            contacts == check_sweep_hits(refreshed, moved, sweep_angle, new_angle, hnow)
            due == SpawnDue(tnow, last_spawn_time)
            kind == AmbientKind(next_id)
        IN  /\ hnow <= max_clock
            /\ clock' = hnow
            /\ tick_now' = tnow
            /\ old_angle' = sweep_angle
            /\ sweep_angle' = new_angle
            /\ refresh_now' = rnow
            /\ hit_now' = hnow
            /\ hits' = crossed
            /\ rehits' = crossed \cap ContactIds(refreshed)
            /\ expired' = ContactIds(detected_contacts) \ ContactIds(refreshed)
            /\ detected_contacts' = contacts
            /\ hit_tick' = [id \in ContactIds(contacts) |->
                                IF id \in crossed THEN nticks + 1 ELSE hit_tick[id]]
            /\ world_objects' = IF due THEN Append(moved, Spawned(kind, next_id, rng))
                                ELSE moved
            /\ next_id' = IF due THEN AdvanceId(next_id) ELSE next_id
            /\ rng' = IF due THEN (rng + Draws(kind)) % RngPeriod ELSE rng
            /\ last_spawn_time' = IF due THEN tnow ELSE last_spawn_time
            /\ last_tick' = NextBoundary(last_tick, delta_time, clock)
            /\ nticks' = nticks + 1
            /\ UNCHANGED << delta_time, max_range >>

Tick ==
    /\ TickCore(TickSteps, MaxTicks, MaxClock)
    /\ UNCHANGED << cross_vars, pool_vars, panicked, run_vars, term_vars >>

Next == Pass \/ Tick

Spec == Init /\ [][Next]_vars

----------------------------------------------------------------------------
(* sweep_crossed_target on its own: one call with arguments in [0, 360) *)

\* whole degrees around the beam width and the 0/360 boundary, the two
\* angles next to 3 degrees, the default step of 3.2 degrees and the last
\* angle before a default-rate wrap, 358.4 degrees
CrossAngles ==
    {Deg(d) : d \in {0, 1, 2, 3, 4, 170, 350, 355, 357, 358, 359}}
        \cup {Deg(3) - 1, Deg(3) + 1, PerTime(Deg(DEGREES_PER_SECOND), 1),
              FullCircle - PerTime(Deg(DEGREES_PER_SECOND), 1) \div 2,
              FullCircle - 1}

InitCross ==
    /\ TuiNew(0, 1)
    /\ cross_old \in CrossAngles
    /\ cross_new \in CrossAngles
    /\ cross_target \in CrossAngles
    /\ cross_result = FALSE
    /\ cross_done = FALSE
    /\ panicked = FALSE
    /\ NoRun
    /\ NoTerminal
    /\ NoPool

CallCrossed ==
    /\ ~cross_done
    /\ cross_result' = sweep_crossed_target(cross_old, cross_new, cross_target)
    /\ cross_done' = TRUE
    /\ UNCHANGED << cross_old, cross_new, cross_target >>
    /\ UNCHANGED << radar_vars, panicked, run_vars, term_vars, pool_vars >>

NextCross == CallCrossed

SpecCross == InitCross /\ [][NextCross]_vars

----------------------------------------------------------------------------
(* The sweep at the default rates of main (15 ticks per second), every
   tick on time, over two revolutions, with one object that stays at a
   fixed angle and a fixed distance *)

\* 1 / tick_rate for tick_rate = 15
DefaultDelta == Secs(1) \div 15

\* the ticks of two revolutions at 3.2 degrees per tick, and the ticks run
TwoRevolutions == (2 * FullCircle) \div PerTime(Deg(DEGREES_PER_SECOND), DefaultDelta)
SweepTicks == TwoRevolutions + MaxTicks

\* the id of the object that stays where it is: the weather cell of Tui::new
FixedId == 500

\* a weather cell whose velocity was drawn as 0, 0
FixedObject(a) ==
    [id |-> FixedId,
     angle |-> a,
     distance |-> Deg(100),
     object_type |-> "Weather",
     velocity |-> << 0, 0 >>]

InitSweep ==
    /\ max_range = TuiMaxRange
    /\ \E a \in CrossAngles : world_objects = << FixedObject(a) >>
    /\ rng = 0
    /\ delta_time = DefaultDelta
    /\ sweep_angle = 0
    /\ detected_contacts = << >>
    /\ last_spawn_time = 0
    /\ next_id = FirstAmbientId
    /\ last_tick = 0
    /\ clock = 0
    /\ tick_now = 0
    /\ old_angle = 0
    /\ refresh_now = 0
    /\ hit_now = 0
    /\ hits = {}
    /\ rehits = {}
    /\ expired = {}
    /\ hit_tick = << >>
    /\ nticks = 0
    /\ NoCross
    /\ panicked = FALSE
    /\ NoRun
    /\ NoTerminal
    /\ NoPool

\* run(): the sleep to the next tick boundary
SweepWait ==
    /\ clock < last_tick + delta_time
    /\ last_tick + delta_time <= SweepTicks * DefaultDelta
    /\ clock' = last_tick + delta_time
    /\ UNCHANGED << sweep_angle, detected_contacts, world_objects, max_range,
                    last_spawn_time, next_id, delta_time, last_tick, rng,
                    tick_now, old_angle, refresh_now, hit_now, hits, rehits,
                    expired, hit_tick, nticks >>
    /\ UNCHANGED << cross_vars, pool_vars, panicked, run_vars, term_vars >>

\* run(): the tick, on time
SweepTick ==
    /\ TickCore({<< 0, 0, 0 >>}, SweepTicks, SweepTicks * DefaultDelta)
    /\ UNCHANGED << cross_vars, pool_vars, panicked, run_vars, term_vars >>

NextSweep == SweepWait \/ SweepTick

SpecSweep == InitSweep /\ [][NextSweep]_vars

----------------------------------------------------------------------------
(* RadarWidget on its own: RadarWidget::new(max_range, fade_duration), then
   calls of the spawn operations, with ids 1, 2, ..., and of
   update_world_objects *)

InitWidget ==
    /\ max_range \in WidgetRanges
    /\ world_objects = << >>
    /\ rng \in 0..MaxSeed
    /\ delta_time \in DeltaTimes
    /\ sweep_angle = 0
    /\ detected_contacts = << >>
    /\ last_spawn_time = 0
    /\ next_id = 1
    /\ last_tick = 0
    /\ clock = 0
    /\ tick_now = 0
    /\ old_angle = 0
    /\ refresh_now = 0
    /\ hit_now = 0
    /\ hits = {}
    /\ rehits = {}
    /\ expired = {}
    /\ hit_tick = << >>
    /\ nticks = 0
    /\ NoCross
    /\ panicked = FALSE
    /\ NoRun
    /\ NoTerminal
    /\ NoPool

\* one of spawn_aircraft .. spawn_weather (spawn_random_object picks among
\* them), called with id next_id
CallSpawn ==
    /\ ~panicked
    /\ next_id <= MaxSpawns
    /\ \E kind \in ObjectTypes :
        IF SpawnPanics(kind)
        THEN /\ panicked' = TRUE
             /\ UNCHANGED << world_objects, rng, next_id >>
        ELSE /\ world_objects' = Append(world_objects, Spawned(kind, next_id, rng))
             /\ rng' = (rng + Draws(kind)) % RngPeriod
             /\ next_id' = next_id + 1
             /\ UNCHANGED panicked
    /\ UNCHANGED << sweep_angle, detected_contacts, max_range, last_spawn_time,
                    delta_time, last_tick, clock, tick_now, old_angle,
                    refresh_now, hit_now, hits, rehits, expired, hit_tick, nticks >>
    /\ UNCHANGED << cross_vars, pool_vars, run_vars, term_vars >>

\* update_world_objects(delta_time)
CallUpdateWorld ==
    /\ ~panicked
    /\ nticks < MaxTicks
    /\ world_objects' = update_world_objects(world_objects, delta_time)
    /\ nticks' = nticks + 1
    /\ UNCHANGED << sweep_angle, detected_contacts, max_range, last_spawn_time,
                    next_id, delta_time, last_tick, clock, rng, tick_now,
                    old_angle, refresh_now, hit_now, hits, rehits, expired,
                    hit_tick >>
    /\ UNCHANGED << cross_vars, pool_vars, panicked, run_vars, term_vars >>

NextWidget == CallSpawn \/ CallUpdateWorld

SpecWidget == InitWidget /\ [][NextWidget]_vars

----------------------------------------------------------------------------
(* main: Tui::new, run() with its input thread, then the drop of the Tui *)

Max(a, b) == IF a >= b THEN a ELSE b
Min(a, b) == IF a <= b THEN a ELSE b

KeyPress(code) == [msg |-> "KeyPress", code |-> code]

\* mutant of KeyCommand: every key quits
KeyCommand_AnyKey(code) == "Quit"

\* Tui::update, Message::KeyPress: the UpdateCommand returned
KeyCommand(code) == IF code \in {"Esc", "q"} THEN "Quit" ELSE "None"

\* mutant of ListenerSends: every key event is sent
ListenerSends_AnyKind(kind) == TRUE

\* the input thread: the key events it sends a message for
ListenerSends(kind) == kind = "Press"

\* mutant of AfterSend: the input thread goes on after a failed send
AfterSend_GoesOn(ok) == "reading"

\* the input thread: where it goes after input_tx.send
AfterSend(ok) == IF ok THEN "reading" ELSE "stopped"

\* the calls of enter() and of exit() that can return an error
EnterFailures == {"none", "enable_raw_mode", "EnterAlternateScreen"}
ExitFailures == {"none", "is_raw_mode_enabled", "flush", "LeaveAlternateScreen",
                 "disable_raw_mode", "show_cursor"}

\* Tui::exit: its effect on the terminal when the call named fail returns an
\* error (a failing call changes nothing)
exit(fail) ==
    IF ~raw_mode \/ fail \in {"is_raw_mode_enabled", "flush", "LeaveAlternateScreen"}
    THEN UNCHANGED term_vars
    ELSE /\ alt_screen' = FALSE
         /\ leave_count' = leave_count + 1
         /\ raw_mode' = (fail = "disable_raw_mode")
         /\ disable_count' = IF fail = "disable_raw_mode" THEN disable_count
                             ELSE disable_count + 1
         /\ show_count' = IF fail = "none" THEN show_count + 1 ELSE show_count

\* Tui::exit returns Ok
exit_ok(fail) == fail # "is_raw_mode_enabled" /\ (~raw_mode \/ fail = "none")

InitRun ==
    /\ TuiNew(0, RunDelta)
    /\ NoCross
    /\ panicked = FALSE
    /\ pc = "new" /\ step = << "new" >>
    /\ frame_duration = RunFrame
    /\ last_frame = 0 /\ run_start = 0 /\ loop_now = 0
    /\ nframes = 0 /\ run_result = "none" /\ quit_drained = FALSE
    /\ queue = << >> /\ rx_alive = TRUE /\ listener = "none"
    /\ NoTerminal
    /\ NoPool

\* run() up to its loop: enter(), the reading of the clock, the spawn of the
\* input thread
RunEnter ==
    /\ pc = "new"
    /\ step' = << "enter" >>
    /\ \E fail \in EnterFailures : \E d \in ClockSteps :
        IF fail = "none"
        THEN /\ raw_mode' = TRUE
             /\ alt_screen' = TRUE
             /\ clock' = clock + d
             /\ run_start' = clock + d
             /\ last_tick' = clock + d
             /\ last_frame' = clock + d
             /\ listener' = "reading"
             /\ pc' = "drain"
             /\ UNCHANGED run_result
        ELSE /\ raw_mode' = (fail = "EnterAlternateScreen")
             /\ pc' = "returned"
             /\ run_result' = "Err"
             /\ UNCHANGED << alt_screen, clock, run_start, last_tick, last_frame,
                             listener >>
    /\ UNCHANGED << sweep_angle, detected_contacts, world_objects, max_range,
                    last_spawn_time, next_id, delta_time, rng, tick_now,
                    old_angle, refresh_now, hit_now, hits, rehits, expired,
                    hit_tick, nticks >>
    /\ UNCHANGED << frame_duration, loop_now, nframes, quit_drained, queue,
                    rx_alive >>
    /\ UNCHANGED << leave_count, disable_count, show_count >>
    /\ UNCHANGED << cross_vars, pool_vars, panicked >>

\* run(): try_recv gives a key press for which update returns Quit; exit(),
\* then the return
DrainQuitKey ==
    /\ pc = "drain"
    /\ queue # << >>
    /\ KeyCommand(Head(queue).code) = "Quit"
    /\ step' = << "key", Head(queue).code >>
    /\ queue' = Tail(queue)
    /\ quit_drained' = TRUE
    /\ \E fail \in ExitFailures :
        /\ exit(fail)
        /\ run_result' = IF exit_ok(fail) THEN "Ok" ELSE "Err"
    /\ pc' = "returned"
    /\ UNCHANGED << frame_duration, last_frame, run_start, loop_now, nframes,
                    rx_alive, listener >>
    /\ UNCHANGED << radar_vars, cross_vars, pool_vars, panicked >>

\* run(): try_recv gives a key press for which update returns None
DrainOtherKey ==
    /\ pc = "drain"
    /\ queue # << >>
    /\ KeyCommand(Head(queue).code) = "None"
    /\ step' = << "key", Head(queue).code >>
    /\ queue' = Tail(queue)
    /\ UNCHANGED << pc, frame_duration, last_frame, run_start, loop_now, nframes,
                    run_result, quit_drained, rx_alive, listener >>
    /\ UNCHANGED << radar_vars, cross_vars, pool_vars, panicked, term_vars >>

\* run(): try_recv finds the channel empty; the reading of the clock
DrainEmpty ==
    /\ pc = "drain"
    /\ queue = << >>
    /\ step' = << "now" >>
    /\ loop_now' = clock
    /\ pc' = "tick"
    /\ UNCHANGED << frame_duration, last_frame, run_start, nframes, run_result,
                    quit_drained, queue, rx_alive, listener >>
    /\ UNCHANGED << radar_vars, cross_vars, pool_vars, panicked, term_vars >>

\* run(): the tick is due.  Under SpecRun the clock advances in RunEnter,
\* in Sleep and before the last reading of a tick (Spec varies all three)
LoopTick ==
    /\ pc = "tick"
    /\ loop_now >= last_tick + delta_time
    /\ TickCore(RunTickSteps, RunTicks, RunClock)
    /\ step' = << "tick" >>
    /\ pc' = "frame"
    /\ UNCHANGED << frame_duration, last_frame, run_start, loop_now, nframes,
                    run_result, quit_drained, queue, rx_alive, listener >>
    /\ UNCHANGED << cross_vars, pool_vars, panicked, term_vars >>

\* run(): the tick is not due
SkipTick ==
    /\ pc = "tick"
    /\ loop_now < last_tick + delta_time
    /\ step' = << "no tick" >>
    /\ pc' = "frame"
    /\ UNCHANGED << frame_duration, last_frame, run_start, loop_now, nframes,
                    run_result, quit_drained, queue, rx_alive, listener >>
    /\ UNCHANGED << radar_vars, cross_vars, pool_vars, panicked, term_vars >>

\* LoopRender with the frame taken before the tick of the same iteration
LoopRender_BeforeTick ==
    /\ pc \in {"tick", "frame"}
    /\ loop_now >= last_frame + frame_duration
    /\ step' = << "render" >>
    /\ \E ok \in BOOLEAN :
        IF ok
        THEN /\ last_frame' = NextBoundary(last_frame, frame_duration, loop_now)
             /\ nframes' = nframes + 1
             /\ pc' = "sleep"
             /\ UNCHANGED run_result
        ELSE /\ run_result' = "Err"
             /\ pc' = "returned"
             /\ UNCHANGED << last_frame, nframes >>
    /\ UNCHANGED << frame_duration, run_start, loop_now, quit_drained, queue,
                    rx_alive, listener >>
    /\ UNCHANGED << radar_vars, cross_vars, pool_vars, panicked, term_vars >>

\* run(): the frame is due; Tui::update(Message::Render), where
\* terminal.draw may return an error
LoopRender ==
    /\ pc = "frame"
    /\ loop_now >= last_frame + frame_duration
    /\ step' = << "render" >>
    /\ \E ok \in BOOLEAN :
        IF ok
        THEN /\ last_frame' = NextBoundary(last_frame, frame_duration, loop_now)
             /\ nframes' = nframes + 1
             /\ pc' = "sleep"
             /\ UNCHANGED run_result
        ELSE /\ run_result' = "Err"
             /\ pc' = "returned"
             /\ UNCHANGED << last_frame, nframes >>
    /\ UNCHANGED << frame_duration, run_start, loop_now, quit_drained, queue,
                    rx_alive, listener >>
    /\ UNCHANGED << radar_vars, cross_vars, pool_vars, panicked, term_vars >>

\* run(): the frame is not due
SkipRender ==
    /\ pc = "frame"
    /\ loop_now < last_frame + frame_duration
    /\ step' = << "no render" >>
    /\ pc' = "sleep"
    /\ UNCHANGED << frame_duration, last_frame, run_start, loop_now, nframes,
                    run_result, quit_drained, queue, rx_alive, listener >>
    /\ UNCHANGED << radar_vars, cross_vars, pool_vars, panicked, term_vars >>

\* SleepTime that never asks for less than one unit of time
SleepTime_AtLeastOne(next_event, now) ==
    IF next_event > now THEN next_event - now ELSE 1

\* run(): next_event.saturating_duration_since(Instant::now())
SleepTime(next_event, now) ==
    IF next_event > now THEN next_event - now ELSE 0

\* run(): thread::sleep for the time to the earlier boundary, or longer
Sleep ==
    /\ pc = "sleep"
    /\ step' = << "sleep" >>
    /\ \E d \in SleepSteps :
        LET next_tick == last_tick + delta_time
            next_frame == last_frame + frame_duration
            next_event == Min(next_tick, next_frame)
            woken == clock + SleepTime(next_event, clock) + d
        IN  /\ woken <= RunClock
            /\ clock' = woken
    /\ pc' = "drain"
    /\ UNCHANGED << sweep_angle, detected_contacts, world_objects, max_range,
                    last_spawn_time, next_id, delta_time, last_tick, rng,
                    tick_now, old_angle, refresh_now, hit_now, hits, rehits,
                    expired, hit_tick, nticks >>
    /\ UNCHANGED << frame_duration, last_frame, run_start, loop_now, nframes,
                    run_result, quit_drained, queue, rx_alive, listener >>
    /\ UNCHANGED << cross_vars, pool_vars, panicked, term_vars >>

\* main: run() has returned; the Tui is dropped: Drop calls exit() and
\* discards its result, then the fields, msg_rx among them, are dropped
MainDrop ==
    /\ pc = "returned"
    /\ step' = << "drop" >>
    /\ \E fail \in ExitFailures : exit(fail)
    /\ rx_alive' = FALSE
    /\ queue' = << >>
    /\ pc' = "dropped"
    /\ UNCHANGED << frame_duration, last_frame, run_start, loop_now, nframes,
                    run_result, quit_drained, listener >>
    /\ UNCHANGED << radar_vars, cross_vars, pool_vars, panicked >>

\* main returns: the process exits, and its threads with it
ProcessExit ==
    /\ pc = "dropped"
    /\ step' = << "process exit" >>
    /\ pc' = "exited"
    /\ listener' = IF listener = "reading" THEN "killed" ELSE listener
    /\ UNCHANGED << frame_duration, last_frame, run_start, loop_now, nframes,
                    run_result, quit_drained, queue, rx_alive >>
    /\ UNCHANGED << radar_vars, cross_vars, pool_vars, panicked, term_vars >>

\* the input thread: event::read() returns a key event; a message is sent
\* for it
ListenerSend ==
    /\ listener = "reading"
    /\ \E code \in KeyCodes : \E kind \in KeyEventKinds :
        /\ ListenerSends(kind)
        /\ rx_alive => Len(queue) < MaxQueue
        /\ step' = << "listener", kind >>
        /\ queue' = IF rx_alive THEN Append(queue, KeyPress(code)) ELSE queue
        /\ listener' = AfterSend(rx_alive)
    /\ UNCHANGED << pc, frame_duration, last_frame, run_start, loop_now, nframes,
                    run_result, quit_drained, rx_alive >>
    /\ UNCHANGED << radar_vars, cross_vars, pool_vars, panicked, term_vars >>

\* the input thread: event::read() returns a key event that is not sent
ListenerIgnore ==
    /\ listener = "reading"
    /\ \E kind \in KeyEventKinds :
        /\ ~ListenerSends(kind)
        /\ step' = << "listener", kind >>
    /\ UNCHANGED << pc, frame_duration, last_frame, run_start, loop_now, nframes,
                    run_result, quit_drained, queue, rx_alive, listener >>
    /\ UNCHANGED << radar_vars, cross_vars, pool_vars, panicked, term_vars >>

NextRun ==
    \/ RunEnter \/ DrainQuitKey \/ DrainOtherKey \/ DrainEmpty
    \/ LoopTick \/ SkipTick \/ LoopRender \/ SkipRender \/ Sleep
    \/ MainDrop \/ ProcessExit
    \/ ListenerSend \/ ListenerIgnore

SpecRun == InitRun /\ [][NextRun]_vars

----------------------------------------------------------------------------
(* The worker pool: ThreadPool::new(size), execute called from any thread
   that borrows the pool, the worker threads, and Drop (shutdown() is
   drop(self)).  A job is an id and whether it panics. *)

Jobs == 1..MaxJobs

NewJob(j, p) == [kind |-> "NewJob", job |-> j, panics |-> p]
Terminate == [kind |-> "Terminate", job |-> 0, panics |-> FALSE]

\* InvalidSize that accepts every size
InvalidSize_Never(n) == FALSE

\* ThreadPool::new, with_config: if size == 0
InvalidSize(n) == n = 0

\* Dequeue that leaves the message in the channel
Dequeue_Peek(chan) == chan

\* Receiver::recv: what is left in the channel
Dequeue(chan) == Tail(chan)

\* AfterJob without catch_unwind: the panic unwinds the worker's thread
AfterJob_PanicKills(p) == IF p THEN "exited" ELSE "wait"

\* Worker::new, the thread: after catch_unwind(job) the loop goes on,
\* whether the job returned or panicked
AfterJob(p) == "wait"

\* TerminateCount with one message too few
TerminateCount_OneLess(ws) == Len(ws) - 1

\* Drop: for _ in &self.workers { send(Message::Terminate) }
TerminateCount(ws) == Len(ws)

\* ThreadPool::num_threads
num_threads == Len(workers)

\* a worker thread that has not left its loop
Live(w) == workers[w].st # "exited"

\* the receiver is dropped with the last worker thread that holds its Arc
ReceiverAlive == \E w \in 1..Len(workers) : Live(w)

QueuedJobs == {channel[i].job : i \in {k \in 1..Len(channel) : channel[k].kind = "NewJob"}}

InitPool ==
    /\ TuiNew(0, 1)
    /\ NoCross
    /\ panicked = FALSE
    /\ NoRun
    /\ NoTerminal
    /\ size \in 0..MaxWorkers
    /\ pool = "init" /\ workers = << >> /\ sender = FALSE
    /\ channel = << >> /\ receiver_lock = 0 /\ cursor = 0 /\ next_job = 1
    /\ accepted = {} /\ runs = [j \in Jobs |-> 0] /\ panics = 0
    /\ drop_backlog = 0

\* ThreadPool::new(size), with_config: the size check and mpsc::channel()
PoolNew ==
    /\ pool = "init"
    /\ IF InvalidSize(size)
       THEN /\ pool' = "failed"
            /\ UNCHANGED sender
       ELSE /\ pool' = IF size = 0 THEN "ready" ELSE "spawning"
            /\ sender' = TRUE
    /\ UNCHANGED << size, workers, channel, receiver_lock, cursor, next_job,
                    accepted, runs, panics, drop_backlog >>
    /\ UNCHANGED sim_vars

\* with_config: workers.push(Worker::new(..)?), where thread::Builder::spawn
\* may fail; the error returns from new and drops the sender
SpawnWorker ==
    /\ pool = "spawning"
    /\ \E ok \in BOOLEAN :
        IF ok
        THEN /\ workers' = Append(workers, [st |-> "wait", job |-> 0,
                                            panics |-> FALSE, terms |-> 0,
                                            caught |-> 0])
             /\ cursor' = cursor + 1
             /\ pool' = IF cursor + 1 = size THEN "ready" ELSE "spawning"
             /\ UNCHANGED sender
        ELSE /\ pool' = "failed"
             /\ sender' = FALSE
             /\ UNCHANGED << workers, cursor >>
    /\ UNCHANGED << size, channel, receiver_lock, next_job, accepted, runs,
                    panics, drop_backlog >>
    /\ UNCHANGED sim_vars

\* ThreadPool::execute(job), from a thread that borrows the pool
Execute ==
    /\ pool = "ready"
    /\ sender
    /\ next_job <= MaxJobs
    /\ \E p \in BOOLEAN :
        IF ReceiverAlive
        THEN /\ channel' = Append(channel, NewJob(next_job, p))
             /\ accepted' = accepted \cup {next_job}
        ELSE UNCHANGED << channel, accepted >>
    /\ next_job' = next_job + 1
    /\ UNCHANGED << size, pool, workers, sender, receiver_lock, cursor, runs,
                    panics, drop_backlog >>
    /\ UNCHANGED sim_vars

\* the worker's thread: receiver.lock()
WorkerLock(w) ==
    /\ workers[w].st = "wait"
    /\ receiver_lock = 0
    /\ receiver_lock' = w
    /\ workers' = [workers EXCEPT ![w].st = "recv"]
    /\ UNCHANGED << size, pool, sender, channel, cursor, next_job, accepted,
                    runs, panics, drop_backlog >>
    /\ UNCHANGED sim_vars

\* the worker's thread: guard.recv() returns a message; the guard is
\* dropped before the job runs
WorkerRecv(w) ==
    /\ workers[w].st = "recv"
    /\ channel # << >>
    /\ LET message == Head(channel)
       IN  /\ channel' = Dequeue(channel)
           /\ receiver_lock' = 0
           /\ IF message.kind = "NewJob"
              THEN /\ workers' = [workers EXCEPT ![w].st = "run",
                                                 ![w].job = message.job,
                                                 ![w].panics = message.panics]
                   /\ runs' = [runs EXCEPT ![message.job] = @ + 1]
              ELSE /\ workers' = [workers EXCEPT ![w].st = "exited",
                                                 ![w].terms = @ + 1]
                   /\ UNCHANGED runs
    /\ UNCHANGED << size, pool, sender, cursor, next_job, accepted, panics,
                    drop_backlog >>
    /\ UNCHANGED sim_vars

\* the worker's thread: guard.recv() returns Err, the channel is empty and
\* every sender is dropped
WorkerDisconnected(w) ==
    /\ workers[w].st = "recv"
    /\ channel = << >>
    /\ ~sender
    /\ receiver_lock' = 0
    /\ workers' = [workers EXCEPT ![w].st = "exited"]
    /\ UNCHANGED << size, pool, sender, channel, cursor, next_job, accepted,
                    runs, panics, drop_backlog >>
    /\ UNCHANGED sim_vars

\* the worker's thread: catch_unwind(job) is over
WorkerFinish(w) ==
    /\ workers[w].st = "run"
    /\ workers' = [workers EXCEPT
                      ![w].st = AfterJob(workers[w].panics),
                      ![w].job = 0,
                      ![w].panics = FALSE,
                      ![w].caught = IF workers[w].panics THEN @ + 1 ELSE @]
    /\ panics' = IF workers[w].panics THEN panics + 1 ELSE panics
    /\ UNCHANGED << size, pool, sender, channel, receiver_lock, cursor,
                    next_job, accepted, runs, drop_backlog >>
    /\ UNCHANGED sim_vars

\* the pool goes out of scope, or shutdown(): Drop begins
PoolDrop ==
    /\ pool = "ready"
    /\ pool' = "terminating"
    /\ cursor' = 0
    /\ drop_backlog' = Cardinality(QueuedJobs)
    /\ UNCHANGED << size, workers, sender, channel, receiver_lock, next_job,
                    accepted, runs, panics >>
    /\ UNCHANGED sim_vars

\* Drop: one send(Message::Terminate)
SendTerminate ==
    /\ pool = "terminating"
    /\ cursor < TerminateCount(workers)
    /\ channel' = IF ReceiverAlive THEN Append(channel, Terminate) ELSE channel
    /\ cursor' = cursor + 1
    /\ UNCHANGED << size, pool, workers, sender, receiver_lock, next_job,
                    accepted, runs, panics, drop_backlog >>
    /\ UNCHANGED sim_vars

\* Drop: drop(self.sender.take())
DropSender ==
    /\ pool = "terminating"
    /\ cursor >= TerminateCount(workers)
    /\ sender' = FALSE
    /\ pool' = IF workers = << >> THEN "dropped" ELSE "joining"
    /\ cursor' = 0
    /\ UNCHANGED << size, workers, channel, receiver_lock, next_job, accepted,
                    runs, panics, drop_backlog >>
    /\ UNCHANGED sim_vars

\* Drop: thread.join() of the next worker returns
JoinWorker ==
    /\ pool = "joining"
    /\ ~Live(cursor + 1)
    /\ cursor' = cursor + 1
    /\ pool' = IF cursor + 1 = Len(workers) THEN "dropped" ELSE "joining"
    /\ UNCHANGED << size, workers, sender, channel, receiver_lock, next_job,
                    accepted, runs, panics, drop_backlog >>
    /\ UNCHANGED sim_vars

WorkerStep(w) ==
    \/ WorkerLock(w)
    \/ WorkerRecv(w)
    \/ WorkerDisconnected(w)
    \/ WorkerFinish(w)

DropStep == SendTerminate \/ DropSender \/ JoinWorker

NextPool ==
    \/ PoolNew
    \/ SpawnWorker
    \/ Execute
    \/ \E w \in 1..Len(workers) : WorkerLock(w)
    \/ \E w \in 1..Len(workers) : WorkerRecv(w)
    \/ \E w \in 1..Len(workers) : WorkerDisconnected(w)
    \/ \E w \in 1..Len(workers) : WorkerFinish(w)
    \/ PoolDrop
    \/ SendTerminate
    \/ DropSender
    \/ JoinWorker

SpecPool == InitPool /\ [][NextPool]_vars

\* every thread that can take a step takes one: the workers and, once Drop
\* has begun, the thread dropping the pool
SpecPoolFair ==
    /\ SpecPool
    /\ WF_vars(DropStep)
    /\ \A w \in 1..MaxWorkers : WF_vars(w <= Len(workers) /\ WorkerStep(w))

----------------------------------------------------------------------------
(* Vocabulary of the properties *)

\* the sweep step old -> new passes through 0 degrees
Wraps(old, new) == new < old

\* target lies on the arc the beam travelled from old to new
InTraveledArc(old, new, target) ==
    IF Wraps(old, new)
    THEN target >= old \/ target <= new
    ELSE old <= target /\ target <= new

\* how far target is ahead of old in the direction of rotation
Ahead(old, target) ==
    IF target >= old THEN target - old ELSE target + FullCircle - old

\* the crossing rule as the specification words it
CrossingRule(old, new, target) ==
    IF new >= old
    THEN old <= target /\ target <= new /\ target - old <= sweep_width
    ELSE \/ (target >= old /\ new + (FullCircle - old) <= sweep_width)
         \/ (target < old /\ target <= new /\ new <= sweep_width)

----------------------------------------------------------------------------
(* Properties of sweep_crossed_target, under SpecCross *)

\* C2: for all old, new and target angles in [0, 360), sweep_crossed_target
\* returns exactly what the specified rule gives: without a wrap, old <=
\* target <= new and target - old <= 3; with a wrap, target >= old and
\* new + (360 - old) <= 3, or target < old, target <= new and new <= 3.
C2_CrossedMatchesRule ==
    cross_done => (cross_result = CrossingRule(cross_old, cross_new, cross_target))

\* a wrapping call answered TRUE for a target behind 0 degrees
C2_WrapCrossedWitness ==
    /\ cross_done /\ cross_result
    /\ Wraps(cross_old, cross_new)
    /\ cross_target <= cross_new

\* C3: in every sweep step that moves the beam, wrapping or not, an object
\* whose angle equals old_angle is reported crossed.
C3_OldAngleAlwaysCrossed ==
    (cross_done /\ cross_new # cross_old /\ cross_target = cross_old)
        => cross_result

\* C4: in every sweep step, wrapping or not, an object on the travelled arc
\* and more than 3 degrees ahead of old_angle is not reported crossed.
C4_BeyondBeamNeverCrossed ==
    (/\ cross_done
     /\ InTraveledArc(cross_old, cross_new, cross_target)
     /\ Ahead(cross_old, cross_target) > sweep_width)
        => ~cross_result

\* C5: in a step that wraps with new_angle <= 3, every object in [0,
\* new_angle] is reported crossed and every object strictly between
\* new_angle and old_angle is not; without a wrap no object outside
\* [old_angle, new_angle] is reported crossed.
C5_WrapSegmentAndOutside ==
    cross_done =>
        /\ (Wraps(cross_old, cross_new) /\ cross_new <= sweep_width
                /\ cross_target <= cross_new) => cross_result
        /\ (Wraps(cross_old, cross_new) /\ cross_new <= sweep_width
                /\ cross_new < cross_target /\ cross_target < cross_old)
              => ~cross_result
        /\ (~Wraps(cross_old, cross_new)
                /\ ~(cross_old <= cross_target /\ cross_target <= cross_new))
              => ~cross_result

\* the step 358 -> 2 degrees has reported the object at 1 degree crossed
C5_PostWrapWitness ==
    /\ cross_done /\ cross_result
    /\ cross_old = Deg(358) /\ cross_new = Deg(2) /\ cross_target = Deg(1)

----------------------------------------------------------------------------
(* Properties of the simulation, under Spec *)

\* the degrees one tick adds to the sweep angle
SweepStep == PerTime(Deg(DEGREES_PER_SECOND), delta_time)

\* C1: after N calls of update_sweep with the same dt >= 0 from the angle 0
\* of a new radar, the sweep angle is (N * 48 * dt) mod 360, and so it is
\* in [0, 360) in every reachable state.
C1_SweepAngleIsModular ==
    /\ sweep_angle = (nticks * SweepStep) % FullCircle
    /\ 0 <= sweep_angle /\ sweep_angle < FullCircle

\* C6: in every reachable state no two contacts have the same id.
C6_OneContactPerId ==
    \A i, j \in 1..Len(detected_contacts) :
        i # j => detected_contacts[i].id # detected_contacts[j].id

\* a tick hit an object that already had a contact, with other contacts tracked
C6_RehitWitness ==
    rehits # {} /\ Len(detected_contacts) >= 3

\* C7: at the end of a tick in which the beam crossed object o, a contact
\* with o's id has visibility 1.0, o's angle and distance after that tick's
\* motion update, and the time check_sweep_hits read in that tick as its
\* last_hit_time, whether it existed before or not.
C7_HitContactIsFresh ==
    \A k \in 1..Len(world_objects) :
        world_objects[k].id \in hits =>
            \E i \in 1..Len(detected_contacts) :
                /\ detected_contacts[i].id = world_objects[k].id
                /\ detected_contacts[i].visibility = FullVisibility
                /\ detected_contacts[i].angle = world_objects[k].angle
                /\ detected_contacts[i].distance = world_objects[k].distance
                /\ detected_contacts[i].last_hit_time = hit_now

\* one tick crossed an object that had a contact and an object that had none
C7_BothBranchesWitness ==
    /\ rehits # {}
    /\ hits \ rehits # {}
    /\ hits \subseteq {world_objects[k].id : k \in 1..Len(world_objects)}

\* the visibility the specification gives for an elapsed time
RuleVisibility(elapsed) ==
    IF elapsed < fade_duration
    THEN (IF fade_duration - elapsed >= 0 THEN fade_duration - elapsed ELSE 0)
    ELSE 0

\* C8: after every tick each contact not hit in it has the visibility
\* max(0, 1 - elapsed / fade_duration) if elapsed < fade_duration and 0
\* otherwise, elapsed being the time from its last_hit_time to that tick's
\* refresh; every visibility is in [0, 1] in every reachable state, passing
\* time included.
C8_VisibilityIsFunctionOfElapsed ==
    \A i \in 1..Len(detected_contacts) :
        LET c == detected_contacts[i]
        IN  /\ 0 <= c.visibility /\ c.visibility <= FullVisibility
            /\ c.id \notin hits =>
                c.visibility =
                    RuleVisibility(duration_since(refresh_now, c.last_hit_time))

\* a contact not hit in the last tick is partly faded
C8_PartlyFadedWitness ==
    \E i \in 1..Len(detected_contacts) :
        /\ detected_contacts[i].id \notin hits
        /\ detected_contacts[i].visibility > 0
        /\ detected_contacts[i].visibility < FullVisibility

\* the elapsed time a contact's current visibility stands for
ElapsedShown(c) ==
    IF c.id \in hits THEN 0 ELSE duration_since(refresh_now, c.last_hit_time)

C9_Step ==
    (nticks' = nticks + 1) =>
        \A i \in 1..Len(detected_contacts) :
        \A j \in 1..Len(detected_contacts') :
            LET c == detected_contacts[i]
                d == detected_contacts'[j]
                elapsed == duration_since(refresh_now', c.last_hit_time)
            IN  (d.id = c.id /\ d.id \notin hits') =>
                    /\ c.id \in hits => c.visibility = FullVisibility
                    /\ d.visibility <= c.visibility
                    /\ (elapsed > ElapsedShown(c) /\ ElapsedShown(c) < fade_duration)
                          => d.visibility < c.visibility
                    /\ elapsed >= fade_duration => d.visibility = 0
                    /\ c.visibility = 0 => d.visibility = 0

\* C9: from one detection of a contact to the next, its visibility over the
\* ticks starts at 1.0, is strictly smaller at a larger elapsed time while
\* the elapsed time is below fade_duration, is 0 from fade_duration on and
\* stays 0 until the contact is removed; no tick without a detection raises it.
C9_VisibilityDecays == [][C9_Step]_vars

\* a contact not hit in the last tick has faded to 0 and is still tracked
C9_FadedOutWitness ==
    \E i \in 1..Len(detected_contacts) :
        /\ detected_contacts[i].id \notin hits
        /\ detected_contacts[i].visibility = 0
        /\ duration_since(refresh_now, detected_contacts[i].last_hit_time)
              >= fade_duration

C10_Step ==
    (nticks' = nticks + 1) =>
        \A i \in 1..Len(detected_contacts) :
            LET c == detected_contacts[i]
                elapsed == duration_since(refresh_now', c.last_hit_time)
            IN  /\ elapsed < 2 * fade_duration
                      => c.id \in ContactIds(detected_contacts')
                /\ (elapsed >= 2 * fade_duration /\ c.id \notin hits')
                      => c.id \notin ContactIds(detected_contacts')

\* C10: a tick's refresh drops a contact if and only if the time since its
\* last_hit_time is >= 2 * fade_duration: a younger contact is never
\* dropped, and an older one is tracked after the tick only if the tick
\* detected it again.
C10_ExpiryAtTwiceFade == [][C10_Step]_vars

\* the last tick dropped a contact that it did not detect again
C10_ExpiredWitness ==
    \E id \in expired : id \notin ContactIds(detected_contacts)

----------------------------------------------------------------------------
(* Properties of the live set of a RadarWidget, under SpecWidget *)

\* C12: in every reachable state, after every motion update and after every
\* spawn operation, each live world object has 0 < distance <= max_range.
\* Fails: spawn_ship draws the distance from 20..80 whatever max_range is.
C12_LiveObjectsInRange ==
    \A i \in 1..Len(world_objects) :
        /\ world_objects[i].distance > 0
        /\ world_objects[i].distance <= max_range

\* C21: every spawn operation completes without failure, for every
\* configuration with max_range > 0.  Fails: the distance ranges of
\* spawn_unknown, spawn_hostile, spawn_generic and spawn_weather are empty
\* for a small max_range, and rand panics on an empty range.
C21_SpawnNeverFails == ~panicked

----------------------------------------------------------------------------
(* Properties of the ambient spawn, under Spec *)

\* the ids of the live objects
ObjectIds(objs) == {objs[i].id : i \in 1..Len(objs)}

\* number of ambient spawns so far
SpawnCount == next_id - FirstAmbientId

\* C19: in every reachable state the live world objects have pairwise
\* distinct ids; the ids of the ambient spawns are strictly increasing: each
\* takes next_id, which is then incremented, starting from 1000, above the
\* id of every object Tui::new spawned.
C19_IdsDistinctAndIncreasing ==
    /\ next_id >= FirstAmbientId
    /\ nticks = 0 => \A i \in 1..Len(world_objects) :
                        world_objects[i].id < FirstAmbientId
    /\ \A i, j \in 1..Len(world_objects) :
        /\ i # j => world_objects[i].id # world_objects[j].id
        /\ world_objects[i].id < next_id
        /\ (i < j /\ world_objects[i].id >= FirstAmbientId)
              => world_objects[i].id < world_objects[j].id

\* two ambient objects live next to objects of Tui::new
C19_TwoAmbientWitness ==
    /\ {FirstAmbientId, FirstAmbientId + 1} \subseteq ObjectIds(world_objects)
    /\ \E id \in ObjectIds(world_objects) : id < FirstAmbientId

\* one tick: an object with the id next_id is new exactly when five whole
\* seconds have passed between the previous spawn and the tick's reading of
\* the clock; no other object is new; a spawn records the tick's reading
C20_Step ==
    nticks' = nticks + 1 =>
        LET elapsed == duration_since(tick_now', last_spawn_time)
            new == ObjectIds(world_objects') \ ObjectIds(world_objects)
        IN  /\ elapsed >= Secs(SpawnPeriodSecs)
                => /\ new = {next_id}
                   /\ next_id' = next_id + 1
                   /\ last_spawn_time' = tick_now'
            /\ elapsed < Secs(SpawnPeriodSecs)
                => /\ new = {}
                   /\ next_id' = next_id
                   /\ last_spawn_time' = last_spawn_time
            /\ Secs(SpawnPeriodSecs) * (next_id' - FirstAmbientId) <= tick_now'

\* C20, amended: a tick spawns exactly one new object when at least 5
\* seconds have elapsed between the previous spawn and the tick's reading of
\* the clock, and nothing otherwise; hence k spawned objects imply that
\* 5 * k seconds have elapsed since start (not the converse).
C20_SpawnGating == [][C20_Step]_vars

\* a tick has spawned, another has not
C20_GatedWitness ==
    /\ SpawnCount >= 1
    /\ nticks > SpawnCount
    /\ last_spawn_time = tick_now

\* C20 as stated: after every tick, k objects have been spawned once 5 * k
\* seconds have elapsed since start.  Fails: the spawn time is resampled
\* from the clock, at most one object is spawned per tick.
C20_SpawnCountTracksTime ==
    nticks > 0 => SpawnCount >= as_secs(tick_now) \div SpawnPeriodSecs

----------------------------------------------------------------------------
(* Properties of run(), its input thread and the terminal, under SpecRun *)

\* the main thread is past run()
Returned == {"returned", "dropped", "exited"}

QuitKeys == {"Esc", "q"}

\* C11, amended: after every refresh no tracked contact has gone
\* 2 * fade_duration seconds of the clock (Instant) without a hit, for every
\* schedule of the main loop.
C11_AbsentAfterTwiceFadeOfClock ==
    \A i \in 1..Len(detected_contacts) :
        duration_since(refresh_now, detected_contacts[i].last_hit_time) < max_age

\* the refresh of a tick that ran late has dropped a contact
C11_DroppedWitness ==
    /\ step = << "tick" >>
    /\ expired # {}
    /\ tick_now > last_tick

\* C11 as stated: a contact not re-hit for 2 * fade_duration simulated
\* seconds (ticks executed since its last detection, times 1 / tick_rate) is
\* absent after the refresh.  Fails: the age is measured on the clock, and
\* ticks that catch up run faster than the clock.
C11_AbsentAfterTwiceFadeSimulated ==
    \A i \in 1..Len(detected_contacts) :
        (nticks - hit_tick[detected_contacts[i].id]) * delta_time < max_age

\* one step of SpecRun, as C13 amended words it
C13_Step ==
    /\ run_result' = "Ok" => (quit_drained' /\ ~raw_mode' /\ ~alt_screen')
    /\ quit_drained' => (pc' \in Returned /\ run_result' \in {"Ok", "Err"})
    /\ quit_drained =>
          (nticks' = nticks /\ nframes' = nframes /\ run_result' = run_result)
    /\ (step'[1] = "key" /\ step'[2] \in QuitKeys) =>
          /\ quit_drained'
          /\ run_result' = "Ok" <=> (~raw_mode' /\ show_count' = show_count + 1)
    /\ (step'[1] = "key" /\ step'[2] \notin QuitKeys) =>
          /\ pc' = "drain" /\ run_result' = "none" /\ ~quit_drained'
          /\ UNCHANGED << radar_vars, term_vars >>
    /\ (quit_drained' /\ ~quit_drained) => step'[1] = "key"

\* C13, amended: run() returns Ok if and only if a drained key press is Esc
\* or 'q' and the exit() it triggers succeeds (it returns the error of exit()
\* otherwise); either way the loop is left and no tick or render is
\* processed after that message, and when run() returns Ok the cleanup has
\* been executed; every other key press leaves the loop running and the
\* simulation state unchanged.
C13_QuitKeyEndsRun == [][C13_Step]_vars

\* 'q' has been drained after ticks and frames, and run() returned Ok
C13_QuitWitness ==
    /\ step = << "key", "q" >>
    /\ run_result = "Ok"
    /\ nticks > 0 /\ nframes > 0

\* C13 as stated: the loop is left with run() returning Ok if and only if
\* a drained key press is Esc or 'q'.  Fails: exit() may return an error.
C13_OkIffQuitKey ==
    (pc \in Returned /\ run_result = "Ok") <=> quit_drained

\* C14: on every exit path taken after raw mode has been enabled, raw mode
\* has been disabled and the alternate screen left when the process exits.
\* Fails: exit() returns at the first call that fails.
C14_TerminalRestoredAtExit ==
    pc = "exited" => (~raw_mode /\ ~alt_screen)

\* C15: however many times exit() is invoked, the leave-alternate-screen,
\* disable-raw-mode and show-cursor actions are each performed once in a
\* run that enabled raw mode.  Fails: exit() returns at the first call that
\* fails, and Drop runs it again from the start.
C15_CleanupExactlyOnce ==
    /\ leave_count <= 1 /\ disable_count <= 1 /\ show_count <= 1
    /\ (pc = "exited" /\ (raw_mode \/ disable_count > 0))
          => (leave_count = 1 /\ disable_count = 1 /\ show_count = 1)

\* C16: in every state of the main loop the tick boundary is start +
\* k * tick_interval, k the number of ticks executed, and the frame boundary
\* is start + m * frame_interval, m the number of frames rendered, however
\* late a tick or a frame ran.
C16_BoundariesNeverDrift ==
    /\ last_tick = run_start + nticks * delta_time
    /\ last_frame = run_start + nframes * frame_duration

\* ticks and frames have run, and the loop is more than one tick behind
C16_LateWitness ==
    /\ nticks > 0 /\ nframes > 0
    /\ run_start > 0
    /\ pc = "tick"
    /\ loop_now >= last_tick + 2 * delta_time

\* one step of SpecRun, as C17 words it
C17_Step ==
    /\ step'[1] # "tick" =>
          UNCHANGED << world_objects, detected_contacts, sweep_angle >>
    /\ step'[1] = "listener" =>
          /\ UNCHANGED << radar_vars, term_vars, pc, run_result, rx_alive >>
          /\ IF step'[2] = "Press" /\ rx_alive
             THEN \E code \in KeyCodes : queue' = Append(queue, KeyPress(code))
             ELSE queue' = queue

\* C17: the simulation state (world objects, contacts, sweep angle) is
\* modified only while the main loop handles a Tick; a Render, a key-press
\* message and every step of the input thread leave it unchanged, and the
\* input thread does nothing but enqueue one KeyPress message per key event
\* of kind Press.
C17_OnlyTickChangesSimulation == [][C17_Step]_vars

\* the input thread has enqueued a key press while contacts are tracked
C17_EnqueuedWitness ==
    /\ step = << "listener", "Press" >>
    /\ queue # << >>
    /\ detected_contacts # << >>
    /\ nframes > 0

\* one step of SpecRun, as C18 amended words it
C18_Step ==
    /\ rx_alive' <=> pc' \notin {"dropped", "exited"}
    /\ ~rx_alive => queue' = queue
    /\ (step'[1] = "listener" /\ ListenerSends(step'[2]) /\ ~rx_alive)
          => listener' = "stopped"
    /\ listener = "stopped" => listener' = "stopped"

\* C18, amended: the channel is closed when the Tui, which owns the
\* receiver, is dropped, after run() has returned; from then on no message
\* is enqueued and the input thread stops at its first send, without a
\* retry.
C18_ClosedChannelStopsListener == [][C18_Step]_vars

\* the input thread found the channel closed
C18_StoppedWitness ==
    /\ listener = "stopped"
    /\ ~rx_alive

\* one step, as C18 words it
C18_StatedStep ==
    pc \in Returned => Len(queue') <= Len(queue)

\* C18 as stated: no message is enqueued after the main loop has exited.
\* Fails: between the return of run() and the drop of the Tui the channel
\* is open and a send succeeds.
C18_NoEnqueueAfterReturn == [][C18_StatedStep]_vars

\* one step of SpecRun, as the code orders a tick and an iteration
C26_Step ==
    /\ nticks' = nticks + 1 =>
          LET moved == update_world_objects(world_objects, delta_time)
              refreshed == update_target_visibility(detected_contacts,
                                                    refresh_now')
          IN  /\ sweep_angle' = AdvanceSweep(sweep_angle, delta_time)
              /\ hits' = CrossedIds(moved, sweep_angle, sweep_angle')
              /\ tick_now' <= refresh_now'
              /\ refresh_now' <= hit_now'
              /\ detected_contacts' =
                     check_sweep_hits(refreshed, moved, sweep_angle,
                                      sweep_angle', hit_now')
    /\ (pc = "tick" /\ pc' # pc) =>
          /\ pc' = "frame"
          /\ nframes' = nframes
          /\ loop_now >= last_tick + delta_time => nticks' = nticks + 1
    /\ (nframes' # nframes \/ (pc' = "sleep" /\ pc' # pc)) =>
          /\ pc = "frame"
          /\ nticks' = nticks

\* C26 (amended): a tick moves the objects, then advances the sweep, then
\* refreshes the contacts (visibility and expiry), and only then detects the
\* beam crossings, on the moved objects and the refreshed contacts; in the
\* main loop the tick phase of an iteration runs a due tick before the frame
\* phase of that iteration.
C26_TickOrder == [][C26_Step]_vars

\* a tick with a hit whose refresh read the clock before its detection did,
\* followed in the same iteration by a due frame
C26_OrderWitness ==
    /\ pc = "frame"
    /\ step = << "tick" >>
    /\ hits # {}
    /\ refresh_now < hit_now
    /\ loop_now >= last_frame + frame_duration

\* C26 as stated: the contact refresh runs after the beam-crossing
\* detection, so its reading of the clock is not the earlier one.  Fails:
\* update_sweep calls update_target_visibility before check_sweep_hits.
C26_RefreshAfterDetection == nticks > 0 => hit_now <= refresh_now

\* one step of SpecRun, as C27 words the end of an iteration
C27_Step ==
    /\ (pc = "sleep" /\ pc' # pc) =>
          LET next_tick == last_tick + delta_time
              next_frame == last_frame + frame_duration
              next_event == Min(next_tick, next_frame)
          IN  /\ pc' = "drain"
              /\ next_event > clock => clock' - next_event \in SleepSteps
              /\ next_event <= clock => clock' - clock \in SleepSteps
              /\ UNCHANGED << nticks, nframes, last_tick, last_frame >>
    /\ (pc = "tick" /\ pc' # pc /\ loop_now >= last_tick + delta_time) =>
          /\ nticks' = nticks + 1
          /\ last_tick' = last_tick + delta_time

C27_ExactSleepWitness ==
    /\ pc = "drain"
    /\ step = << "sleep" >>
    /\ clock > loop_now
    /\ clock = last_tick + delta_time

----------------------------------------------------------------------------
(* Properties of the worker pool, under SpecPool and SpecPoolFair *)

PoolBuilt == pool \in {"ready", "terminating", "joining", "dropped"}

\* C22: every job for which execute returned Ok is started at most once,
\* waits in the channel until a worker starts it, is never started by two
\* workers, and has been run exactly once when Drop (or shutdown) returns,
\* also when it was still queued as Drop began.
C22_AcceptedJobsRunOnce ==
    /\ \A j \in accepted : runs[j] <= 1 /\ (runs[j] = 0 <=> j \in QueuedJobs)
    /\ \A j \in Jobs \ accepted : runs[j] = 0
    /\ \A v, w \in 1..Len(workers) :
          (v # w /\ workers[v].st = "run" /\ workers[w].st = "run")
              => workers[v].job # workers[w].job
    /\ pool = "dropped" =>
          /\ \A j \in accepted : runs[j] = 1
          /\ \A w \in 1..Len(workers) : workers[w].st = "exited"

\* Drop has returned, every job was accepted, and at least one of them was
\* still in the channel when Drop began
C22_BacklogWitness ==
    /\ pool = "dropped"
    /\ accepted = Jobs
    /\ drop_backlog >= 1

\* C23: while the pool is in use every one of its size workers is live,
\* whatever number of jobs has panicked; a worker leaves its loop only by a
\* Terminate message; and every accepted job is in the channel or has been
\* started, and has been started once Drop has returned.
C23_PanicKeepsWorkers ==
    /\ pool = "ready" =>
          Cardinality({w \in 1..Len(workers) : Live(w)}) = size
    /\ PoolBuilt =>
          \A w \in 1..Len(workers) : ~Live(w) => workers[w].terms = 1
    /\ \A j \in accepted :
          runs[j] >= 1 \/ (j \in QueuedJobs /\ pool # "dropped")

\* a worker that has caught the panic of a job is running a later job
C23_LaterJobWitness ==
    /\ pool = "ready"
    /\ \E w \in 1..Len(workers) :
          workers[w].caught >= 1 /\ workers[w].st = "run"

\* when Drop has returned every worker thread has exited, having consumed
\* exactly one Terminate, and nothing is left in the channel
C24_AllExited ==
    pool = "dropped" =>
        /\ \A w \in 1..Len(workers) : ~Live(w) /\ workers[w].terms = 1
        /\ channel = << >>
        /\ receiver_lock = 0

\* C24: Drop (and shutdown) returns only after every worker thread has
\* exited, each having consumed exactly one Terminate, and, when every job
\* terminates and every thread is scheduled, a Drop that has begun returns.
C24_ShutdownTerminates ==
    /\ [] C24_AllExited
    /\ (pool = "terminating") ~> (pool = "dropped")

\* Drop has returned for a pool of MaxWorkers workers that ran every job,
\* one of them panicking
C24_DroppedWitness ==
    /\ pool = "dropped"
    /\ Len(workers) = MaxWorkers
    /\ panics >= 1
    /\ \A j \in Jobs : runs[j] = 1

\* C25 (amended): new(0) returns Err and starts no worker; new(n) with
\* n > 0 returns a pool of exactly n workers, num_threads() = n, all live,
\* or returns Err because a worker thread could not be spawned.
C25_NewBuildsPool ==
    /\ (size = 0 /\ pool # "init") =>
          pool = "failed" /\ workers = << >> /\ ~sender
    /\ PoolBuilt => size > 0 /\ num_threads = size
    /\ pool = "ready" => \A w \in 1..Len(workers) : Live(w)
    /\ (pool = "failed" /\ size > 0) => Len(workers) < size

\* new(MaxWorkers) has returned a pool
C25_BuiltWitness ==
    /\ pool = "ready"
    /\ size = MaxWorkers
    /\ num_threads = MaxWorkers
    /\ next_job = 1

\* C25 as stated: for every n > 0 new(n) returns a pool with n workers.
\* Fails: when thread::Builder::spawn fails, new returns Err.
C25_PositiveSizeAlwaysBuilds ==
    (size > 0 /\ pool \notin {"init", "spawning"}) =>
        (pool # "failed" /\ num_threads = size)

====
